---------------------------- MODULE Spec2Model ----------------------------
(***************************************************************************)
(* Session booking backend (Dee-Codez/PA_Assgn).                           *)
(*                                                                         *)
(* The model follows the POST /booking/book-session handler, of which the  *)
(* repository holds two versions:                                          *)
(*   part_000  hour taken from the text of session_date, slot = hour - 9,  *)
(*             confirmation e-mail and calendar event after the INSERT;    *)
(*   part_001  hour taken with getUTCHours(), slot = hour - 8, no e-mail   *)
(*             and no calendar event.                                      *)
(* One of them is mounted by server.js in a deployment: `variant` is       *)
(* chosen once and never changes.                                          *)
(*                                                                         *)
(* Node runs a handler without interruption up to its next `await`, so an  *)
(* action is one awaited call (the store query, the mail send, the         *)
(* calendar insert) together with the synchronous code that follows it up  *)
(* to the next awaited call.  Requests interleave at the awaits only.      *)
(*                                                                         *)
(* session_date is modelled in the format each version documents           *)
(* (part_000: 2023-12-31T10:00:00, part_001: 2023-12-31T10:00:00Z) as its  *)
(* calendar date and the digits of its hour and minute fields.             *)
(*                                                                         *)
(* A field of the request is drawn by the action whose code reads it       *)
(* first: the token and speaker_email on arrival (lines 51-69 of           *)
(* part_000), session_date when the time is validated (line 75).  The      *)
(* handler never reads a field earlier, and no other request sees it.      *)
(*                                                                         *)
(* The two availability listings (GET /speakers/available and              *)
(* GET /speakers/availability/:email/:year/:month) read the bookings       *)
(* table once; each is one action.  A Date is its number of minutes since  *)
(* 00:00 of day 0; every month has MonthLen days, so day d is day          *)
(* ((d - 1) % MonthLen) + 1 of month ((d - 1) \div MonthLen) + 1, and the   *)
(* pair (year, month) of a request is the number of the month.  Time does  *)
(* not pass within a run: `now` is drawn once.                             *)
(***************************************************************************)
EXTENDS Integers, Sequences, FiniteSets, TLC

\* Number of book-session requests in a run.
NumReq == 2
\* Number of calendar dates a request may name: the days 1..MaxDay.
MaxDay == 2
\* Number of days of a month of the calendar.
MonthLen == 2
\* Number of months an availability listing may name: the months 1..MaxMonth.
MaxMonth == 2

\* Number of requests to the handlers of routes/auth.js.
NumAuth == 3

Req == 1..NumReq
AuthReq == 1..NumAuth
Days == 1..MaxDay

Variants == {"part_000", "part_001"}

VARIABLES
  variant,    \* the version of the handler that is mounted
  users_js,   \* table users_js: the rows, in insertion order
  bookings,   \* table bookings: the rows, in insertion order
  pc,         \* per request: the awaited call it is suspended at
  req,        \* per request: cookie token and body
  slot,       \* per request: the local `slot`
  err,        \* per request: name of the error caught by the catch block
  res,        \* per request: the response sent
  after,      \* per request: the requests answered before it arrived
  now,        \* the time of the run, what new Date() returns
  listed,     \* the last answer of an availability listing
  otps,       \* table otps: the rows, in insertion order
  auth        \* per request of routes/auth.js: handler, position, inputs,
              \* error caught and response

vars == <<variant, users_js, bookings, pc, req, slot, err, res, after,
          now, listed, otps, auth>>

----------------------------------------------------------------------------
\* Inputs

\* Accounts present in users_js (created by /auth/register with one of the
\* two user types).
\* A row of users_js as /auth/register inserts it: the profile columns are
\* not set.
UserRow(email, user_type) ==
  [email |-> email, user_type |-> user_type, expertise |-> "",
   price_per_session |-> 0]

Accounts == <<UserRow("u1", "user"), UserRow("u2", "user"),
              UserRow("s1", "speaker"), UserRow("s2", "speaker")>>

\* The token cookie: absent, not verifiable, expired, or signed by
\* /auth/login or /auth/register for an account ({ email, user_type }).
NoToken == [kind |-> "none", email |-> "", user_type |-> ""]
BadToken == [kind |-> "bad", email |-> "", user_type |-> ""]
ExpiredToken == [kind |-> "expired", email |-> "u1", user_type |-> "user"]
ValidTokens == {[kind |-> "valid", email |-> Accounts[i].email,
                 user_type |-> Accounts[i].user_type] :
                  i \in {j \in DOMAIN Accounts :
                           Accounts[j].email \in {"u1", "u2", "s1"}}}
Tokens == {NoToken, BadToken, ExpiredToken} \cup ValidTokens

\* speaker_email of the body: two speakers, an account of type user, and an
\* email with no account.
SpeakerEmails == {"s1", "s2", "u1", "nobody"}

\* The hour and minute fields of session_date, as the digits written.
HourTexts == {<<0, 8>>, <<0, 9>>, <<1, 6>>, <<1, 7>>}
MinuteTexts == {<<0, 0>>, <<3, 0>>}
SessionDates == [date : Days, hh : HourTexts, mm : MinuteTexts]

\* session_date of a request whose handler has not read it.
NoDate == [date |-> 0, hh |-> <<>>, mm |-> <<>>]

NoReq == [token |-> NoToken, speaker_email |-> "", session_date |-> NoDate]

----------------------------------------------------------------------------
\* Responses: status code and the text of the JSON body.

NoResponse == [status |-> 0, body |-> ""]
R_NoToken == [status |-> 401, body |-> "No token provided"]
R_InvalidToken == [status |-> 401, body |-> "Invalid token"]
R_Forbidden == [status |-> 403, body |-> "Only users can book sessions"]
R_InvalidTarget == [status |-> 400, body |-> "Speaker not available"]
R_InvalidSlot == [status |-> 400, body |-> "Invalid session time"]
R_SlotTaken == [status |-> 400,
                body |-> "Speaker already has a booking for this slot"]
R_Failed == [status |-> 500, body |-> "Failed to book session"]
R_Success == [status |-> 200, body |-> "Session booked successfully"]

\* routes/auth.js: /send-otp, /register and /update-profile.
A_UserExists == [status |-> 400, body |-> "User already exists"]
A_OtpSent == [status |-> 200, body |-> "OTP sent successfully"]
A_OtpFailed == [status |-> 500, body |-> "Failed to send OTP"]
A_InvalidOtp == [status |-> 400, body |-> "Invalid OTP"]
A_InvalidUserType == [status |-> 400, body |-> "Invalid user type"]
A_Registered == [status |-> 200, body |-> "OTP verified successfully"]
A_RegisterFailed == [status |-> 500, body |-> "Failed to verify OTP"]
P_InvalidRequest == [status |-> 400, body |-> "Invalid request"]
P_InvalidSpeaker == [status |-> 400, body |-> "Invalid speaker email"]
P_Updated == [status |-> 200, body |-> "Profile updated successfully"]
P_Failed == [status |-> 500, body |-> "Failed to update profile"]
\* The answer of the framework's default error handler.
P_Unhandled == [status |-> 500, body |-> "Internal Server Error"]

\* A request of routes/auth.js that has not arrived.
NoAuth == [op |-> "none", pc |-> "idle", email |-> "", otp |-> "",
           user_type |-> "", token |-> NoToken, expertise |-> "",
           price_per_session |-> 0, err |-> "", res |-> NoResponse]

----------------------------------------------------------------------------
\* Pure parts of the handler

\* Numeric value of a string of decimal digits (the coercion of `hour < 9`,
\* `minutes != 0` and `hour - 9` in part_000; the parse of new Date() in
\* part_001).
RECURSIVE ToNumber(_)
ToNumber(ds) ==
  IF ds = <<>> THEN 0
  ELSE 10 * ToNumber(SubSeq(ds, 1, Len(ds) - 1)) + ds[Len(ds)]

\* part_000: session_date.toString().split('T')[1].split(':')[0]
\* part_001: new Date(session_date).getUTCHours()
HourOf(v, sd) == ToNumber(sd.hh)

\* part_000: session_date.toString().split('T')[1].split(':')[1]
\* part_001: sessionTime.getUTCMinutes()
MinutesOf(v, sd) == ToNumber(sd.mm)

\* MUTANT of InvalidSessionTime: the upper limit off by one hour.
InvalidSessionTimeLate(v, sd) ==
  HourOf(v, sd) < 9 \/ HourOf(v, sd) > 17 \/ MinutesOf(v, sd) # 0

\* if (hour < 9 || hour > 16 || minutes != 0)
InvalidSessionTime(v, sd) ==
  HourOf(v, sd) < 9 \/ HourOf(v, sd) > 16 \/ MinutesOf(v, sd) # 0

\* part_000: const slot = hour - 9;   part_001: const slot = hour - 8;
SlotOf(v, hour) == IF v = "part_000" THEN hour - 9 ELSE hour - 8

\* MUTANT of RoleAllowed: the check lets every verified token through.
RoleAllowedAny(user_type) == TRUE

\* if (user_type !== 'user') return 403
RoleAllowed(user_type) == user_type = "user"

\* MUTANT of SpeakerRows: the user_type filter is dropped.
SpeakerRowsAnyType(tbl, email) ==
  {i \in DOMAIN tbl : tbl[i].email = email}

\* SELECT * FROM users_js WHERE email = $1 AND user_type = 'speaker'
SpeakerRows(tbl, email) ==
  {i \in DOMAIN tbl : tbl[i].email = email /\ tbl[i].user_type = "speaker"}

\* MUTANT of BookingRows: the DATE(session_date) = DATE($3) test is dropped.
BookingRowsAnyDate(tbl, speaker_email, s, sd) ==
  {i \in DOMAIN tbl : /\ tbl[i].speaker_email = speaker_email
                      /\ tbl[i].slot = s}

\* SELECT * FROM bookings WHERE speaker_email = $1 AND slot = $2
\*   AND DATE(session_date) = DATE($3)
BookingRows(tbl, speaker_email, s, sd) ==
  {i \in DOMAIN tbl : /\ tbl[i].speaker_email = speaker_email
                      /\ tbl[i].slot = s
                      /\ tbl[i].session_date.date = sd.date}

\* jwt.verify(token, secret): the name of the error it throws, "" if none.
\* A token that does not verify throws JsonWebTokenError; an expired one
\* throws TokenExpiredError, whose name is 'TokenExpiredError'.
VerifyError(token) ==
  CASE token.kind = "bad" -> "JsonWebTokenError"
    [] token.kind = "expired" -> "TokenExpiredError"
    [] OTHER -> ""

\* catch (error): 401 for error.name === 'JsonWebTokenError', else 500.
Catch(name) ==
  IF name = "JsonWebTokenError" THEN R_InvalidToken ELSE R_Failed

----------------------------------------------------------------------------
\* Dates and the pure parts of the availability listings

\* for (let day = 0; day < 7; day++), setDate(currentDate.getDate() + 7)
Week == 7

\* for (let hour = 9; hour <= 16; hour++)
TemplateHours == 9..16

\* new Date(...) of a day, an hour and a minute.
MakeDate(day, hour, minute) == (day * 24 + hour) * 60 + minute

DayOf(t) == t \div (24 * 60)
HoursOfDate(t) == (t \div 60) % 24
MinutesOfDate(t) == t % 60

\* Date.getDate(): the day of the month.
GetDate(t) == ((DayOf(t) - 1) % MonthLen) + 1

\* new Date(year, month - 1, day, hour, 0, 0); day 0 is the last day of the
\* month before.
NewDate(month, day, hour) == MakeDate((month - 1) * MonthLen + day, hour, 0)

\* Two decimal digits of a number below 100.
Digits2(n) == <<n \div 10, n % 10>>

\* formatDate(date): the text 2023-12-31T10:00:00 of a Date, in the shape of
\* session_date.
FormatDate(t) == [date |-> DayOf(t),
                  hh |-> Digits2(HoursOfDate(t)),
                  mm |-> Digits2(MinutesOfDate(t))]

\* new Date(booking.session_date).getTime(), and the value the store compares
\* with the bounds of BETWEEN.
ParseDate(sd) == MakeDate(sd.date, ToNumber(sd.hh), ToNumber(sd.mm))

\* SELECT speaker_email, session_date FROM bookings
\*   WHERE session_date BETWEEN $1 AND $2
BetweenRows(tbl, from, to) ==
  {i \in DOMAIN tbl : /\ ParseDate(from) <= ParseDate(tbl[i].session_date)
                      /\ ParseDate(tbl[i].session_date) <= ParseDate(to)}

\* bookings.some(b => new Date(b.session_date).getTime() === slotDate.getTime())
IsSlotBooked(tbl, rows, slotDate) ==
  \E i \in rows : ParseDate(tbl[i].session_date) = slotDate

\* MUTANT of WeekSlotDates: past slots of the current day are not skipped.
WeekSlotDatesWithPast(cur) ==
  {MakeDate(DayOf(cur) + day, hour, 0) : day \in 0..(Week - 1),
                                         hour \in TemplateHours}

\* /available: the slotDate values the two loops reach and do not skip
\* (slotDate > nextWeekDate: break; slotDate < currentDate: continue).
WeekSlotDates(cur) ==
  {t \in {MakeDate(DayOf(cur) + day, hour, 0) : day \in 0..(Week - 1),
                                               hour \in TemplateHours} :
     /\ ~(t > cur + Week * 24 * 60)
     /\ ~(t < cur)}

\* /available: availableSlots, the same for every speaker.
AvailableSlots(tbl, cur) ==
  LET rows == BetweenRows(tbl, FormatDate(cur),
                          FormatDate(cur + Week * 24 * 60))
  IN {FormatDate(t) : t \in {u \in WeekSlotDates(cur) :
                               ~IsSlotBooked(tbl, rows, u)}}

\* /availability: firstDate and lastDate of the month.
FirstDate(month) == NewDate(month, 1, 0)
LastDate(month) == NewDate(month + 1, 0, 0)

\* /availability: the slotDate values the two loops reach and do not skip
\* (day from currentDate.getDate() to lastDate.getDate()).
MonthSlotDates(cur, month) ==
  {t \in {NewDate(month, day, hour) :
            day \in GetDate(cur)..GetDate(LastDate(month)),
            hour \in TemplateHours} :
     ~(t < cur)}

\* /availability: availableSlots of one speaker.
MonthAvailableSlots(tbl, cur, email, month) ==
  LET rows == {i \in BetweenRows(tbl, FormatDate(FirstDate(month)),
                                 FormatDate(LastDate(month))) :
                 tbl[i].speaker_email = email}
  IN {FormatDate(t) : t \in {u \in MonthSlotDates(cur, month) :
                               ~IsSlotBooked(tbl, rows, u)}}

\* SELECT email, ... FROM users_js WHERE user_type = 'speaker'
Speakers(tbl) ==
  {tbl[i].email : i \in {j \in DOMAIN tbl : tbl[j].user_type = "speaker"}}

\* The times of a run: before the first slot of a day, at it, after it, and
\* after the last one.
NowTimes == {<<8, 30>>, <<9, 0>>, <<9, 30>>, <<16, 30>>}
Nows == {MakeDate(d, hm[1], hm[2]) : d \in 1..(MaxDay + 1), hm \in NowTimes}

Months == 1..MaxMonth

\* An answer of a listing: the call, the table it read, the error caught,
\* the status, the text of a failure, and the pairs <<email, slot>> listed.
NoListing == [call |-> "none", email |-> "", month |-> 0, at |-> <<>>,
              error |-> "", status |-> 0, body |-> "", slots |-> {}]

----------------------------------------------------------------------------
\* State machine

Init ==
  /\ variant \in Variants
  /\ users_js = Accounts
  /\ bookings = <<>>
  /\ pc = [r \in Req |-> "idle"]
  /\ req = [r \in Req |-> NoReq]
  /\ slot = [r \in Req |-> -1]
  /\ err = [r \in Req |-> ""]
  /\ res = [r \in Req |-> NoResponse]
  /\ after = [r \in Req |-> {}]
  /\ now = MakeDate(1, 8, 30)
  /\ listed = NoListing
  /\ otps = <<>>
  /\ auth = [r \in AuthReq |-> NoAuth]

\* The handler answers and ends.
Respond(r, response) ==
  /\ res' = [res EXCEPT ![r] = response]
  /\ pc' = [pc EXCEPT ![r] = "done"]

\* An awaited call throws: the catch block answers.
Throw(r, name) ==
  /\ err' = [err EXCEPT ![r] = name]
  /\ Respond(r, Catch(name))

\* The request arrives: token presence, jwt.verify, role check; then the
\* speaker query is issued.
BookSession(r, token, speaker_email) ==
  /\ pc[r] = "idle"
  /\ req' = [req EXCEPT ![r] = [token |-> token,
                                speaker_email |-> speaker_email,
                                session_date |-> NoDate]]
  /\ after' = [after EXCEPT ![r] = {q \in Req : pc[q] = "done"}]
  /\ IF token.kind = "none"
       THEN Respond(r, R_NoToken) /\ UNCHANGED err
     ELSE IF VerifyError(token) # ""
       THEN Throw(r, VerifyError(token))
     ELSE IF ~RoleAllowed(token.user_type)
       THEN Respond(r, R_Forbidden) /\ UNCHANGED err
     ELSE /\ pc' = [pc EXCEPT ![r] = "speakerQuery"]
          /\ UNCHANGED <<res, err>>
  /\ UNCHANGED <<otps, auth, now, listed, variant, users_js, bookings, slot>>

\* The speaker query returns; session time is validated and the slot
\* computed; the conflict query is issued.
SpeakerQuery(r, session_date) ==
  /\ pc[r] = "speakerQuery"
  /\ IF SpeakerRows(users_js, req[r].speaker_email) = {}
       THEN Respond(r, R_InvalidTarget) /\ UNCHANGED <<req, slot>>
     ELSE /\ req' = [req EXCEPT ![r].session_date = session_date]
          /\ IF InvalidSessionTime(variant, session_date)
               THEN Respond(r, R_InvalidSlot) /\ UNCHANGED slot
               ELSE /\ slot' = [slot EXCEPT ![r] =
                                  SlotOf(variant, HourOf(variant, session_date))]
                    /\ pc' = [pc EXCEPT ![r] = "bookingQuery"]
                    /\ UNCHANGED res
  /\ UNCHANGED <<otps, auth, now, listed, variant, users_js, bookings, err, after>>

\* The conflict query returns; the INSERT is issued if it found no row.
BookingQuery(r) ==
  /\ pc[r] = "bookingQuery"
  /\ IF BookingRows(bookings, req[r].speaker_email, slot[r],
                    req[r].session_date) # {}
       THEN Respond(r, R_SlotTaken)
       ELSE pc' = [pc EXCEPT ![r] = "insert"] /\ UNCHANGED res
  /\ UNCHANGED <<otps, auth, now, listed, variant, users_js, bookings, req, slot, err, after>>

\* The INSERT is executed.  part_001 answers; part_000 sends the e-mail.
InsertBooking(r) ==
  /\ pc[r] = "insert"
  /\ bookings' = Append(bookings,
                        [user_email |-> req[r].token.email,
                         speaker_email |-> req[r].speaker_email,
                         session_date |-> req[r].session_date,
                         slot |-> slot[r]])
  /\ IF variant = "part_000"
       THEN pc' = [pc EXCEPT ![r] = "sendMail"] /\ UNCHANGED res
       ELSE Respond(r, R_Success)
  /\ UNCHANGED <<otps, auth, now, listed, variant, users_js, req, slot, err, after>>

\* sgMail.send returns; the calendar insert is issued.
SendMail(r) ==
  /\ pc[r] = "sendMail"
  /\ pc' = [pc EXCEPT ![r] = "calendarInsert"]
  /\ UNCHANGED <<otps, auth, now, listed, variant, users_js, bookings, req, slot, err, res, after>>

\* MUTANT of CalendarInsert: the handler ends without answering.
CalendarInsertSilent(r) ==
  /\ pc[r] = "calendarInsert"
  /\ pc' = [pc EXCEPT ![r] = "done"]
  /\ UNCHANGED <<otps, auth, now, listed, variant, users_js, bookings, req, slot, err, res, after>>

\* calendar.events.insert returns; the handler answers 200.
CalendarInsert(r) ==
  /\ pc[r] = "calendarInsert"
  /\ Respond(r, R_Success)
  /\ UNCHANGED <<otps, auth, now, listed, variant, users_js, bookings, req, slot, err, after>>

\* A query of the store rejects (connection lost, statement refused).
StoreFails(r) ==
  /\ pc[r] \in {"speakerQuery", "bookingQuery", "insert"}
  /\ Throw(r, "StoreError")
  /\ UNCHANGED <<otps, auth, now, listed, variant, users_js, bookings, req, slot, after>>

\* MUTANT of NotifierFails: the catch block takes the request's row back.
NotifierFailsRollback(r) ==
  /\ pc[r] \in {"sendMail", "calendarInsert"}
  /\ Throw(r, "NotifierError")
  /\ bookings' = SelectSeq(bookings,
                   LAMBDA row : ~ /\ row.user_email = req[r].token.email
                                  /\ row.speaker_email = req[r].speaker_email
                                  /\ row.session_date = req[r].session_date)
  /\ UNCHANGED <<otps, auth, now, listed, variant, users_js, req, slot, after>>

\* sgMail.send or calendar.events.insert rejects.
NotifierFails(r) ==
  /\ pc[r] \in {"sendMail", "calendarInsert"}
  /\ Throw(r, "NotifierError")
  /\ UNCHANGED <<otps, auth, now, listed, variant, users_js, bookings, req, slot, after>>

\* GET /speakers/available: every speaker with its open slots of the next
\* seven days; speakers without an open slot are left out.
Available ==
  /\ listed' = [call |-> "available", email |-> "", month |-> 0,
                at |-> bookings, error |-> "", status |-> 200, body |-> "",
                slots |-> {<<e, t>> : e \in Speakers(users_js),
                                      t \in AvailableSlots(bookings, now)}]
  /\ UNCHANGED <<variant, users_js, bookings, pc, req, slot, err, res, after,
                 now, otps, auth>>

\* A query of /available rejects: the catch block answers 500.
AvailableFails ==
  /\ listed' = [call |-> "available", email |-> "", month |-> 0,
                at |-> bookings, error |-> "StoreError", status |-> 500,
                body |-> "Failed to retrieve speakers", slots |-> {}]
  /\ UNCHANGED <<variant, users_js, bookings, pc, req, slot, err, res, after,
                 now, otps, auth>>

\* GET /speakers/availability/:email/:year/:month.  speakerResult.rows[0] is
\* undefined for an email that is no speaker's, and speaker.expertise then
\* throws a TypeError, which the catch block answers with 500.
Availability(email, month) ==
  /\ listed' =
       IF SpeakerRows(users_js, email) = {}
         THEN [call |-> "availability", email |-> email, month |-> month,
               at |-> bookings, error |-> "TypeError", status |-> 500,
               body |-> "Failed to retrieve availability", slots |-> {}]
         ELSE [call |-> "availability", email |-> email, month |-> month,
               at |-> bookings, error |-> "", status |-> 200, body |-> "",
               slots |-> {<<email, t>> :
                            t \in MonthAvailableSlots(bookings, now, email,
                                                      month)}]
  /\ UNCHANGED <<variant, users_js, bookings, pc, req, slot, err, res, after,
                 now, otps, auth>>

\* A query of /availability rejects: the catch block answers 500.
AvailabilityFails(email, month) ==
  /\ listed' = [call |-> "availability", email |-> email, month |-> month,
                at |-> bookings, error |-> "StoreError", status |-> 500,
                body |-> "Failed to retrieve availability", slots |-> {}]
  /\ UNCHANGED <<variant, users_js, bookings, pc, req, slot, err, res, after,
                 now, otps, auth>>

Next ==
  \E r \in Req :
    \/ \E token \in Tokens, speaker_email \in SpeakerEmails :
         BookSession(r, token, speaker_email)
    \/ \E session_date \in SessionDates : SpeakerQuery(r, session_date)
    \/ BookingQuery(r)
    \/ InsertBooking(r)
    \/ SendMail(r)
    \/ CalendarInsert(r)
    \/ StoreFails(r)
    \/ NotifierFails(r)

Spec == Init /\ [][Next]_vars

\* The listings next to one booking request, at any time of Nows.
AvailInit ==
  /\ variant \in Variants
  /\ users_js = Accounts
  /\ bookings = <<>>
  /\ pc = [r \in Req |-> "idle"]
  /\ req = [r \in Req |-> NoReq]
  /\ slot = [r \in Req |-> -1]
  /\ err = [r \in Req |-> ""]
  /\ res = [r \in Req |-> NoResponse]
  /\ after = [r \in Req |-> {}]
  /\ now \in Nows
  /\ listed = NoListing
  /\ otps = <<>>
  /\ auth = [r \in AuthReq |-> NoAuth]

AvailNext ==
  \/ \E token \in Tokens, speaker_email \in SpeakerEmails :
       BookSession(1, token, speaker_email)
  \/ \E session_date \in SessionDates : SpeakerQuery(1, session_date)
  \/ BookingQuery(1)
  \/ InsertBooking(1)
  \/ SendMail(1)
  \/ CalendarInsert(1)
  \/ StoreFails(1)
  \/ NotifierFails(1)
  \/ Available
  \/ AvailableFails
  \/ \E email \in SpeakerEmails, month \in Months : Availability(email, month)
  \/ \E email \in SpeakerEmails, month \in Months :
       AvailabilityFails(email, month)

SpecAvail == AvailInit /\ [][AvailNext]_vars

\* The listings next to two booking requests of user u1 for speaker s1, with
\* session dates on the hour.
ListBookNext ==
  \/ \E r \in Req :
       \/ \E token \in {t \in ValidTokens : t.email = "u1"} :
            BookSession(r, token, "s1")
       \/ \E session_date \in {sd \in SessionDates : sd.mm = <<0, 0>>} :
            SpeakerQuery(r, session_date)
       \/ BookingQuery(r)
       \/ InsertBooking(r)
       \/ SendMail(r)
       \/ CalendarInsert(r)
       \/ StoreFails(r)
       \/ NotifierFails(r)
  \/ Available
  \/ \E email \in {"s1", "s2"}, month \in Months : Availability(email, month)

SpecListBook == Init /\ [][ListBookNext]_vars

TypeOK ==
  /\ variant \in Variants
  /\ pc \in [Req -> {"idle", "speakerQuery", "bookingQuery", "insert",
                     "sendMail", "calendarInsert", "done"}]
  /\ \A r \in Req : after[r] \subseteq Req
  /\ Len(bookings) <= NumReq

----------------------------------------------------------------------------
\* State machine of /auth/send-otp and /auth/register

\* email of the body: an address with no account, and a speaker's.
AuthEmails == {"n1", "s1"}

\* The OTP: '123456' in dev mode, a random six-digit string otherwise.
OtpCodes == {"123456", "654321"}

\* user_type of the body of /register.
UserTypes == {"user", "speaker", "admin"}

\* SELECT * FROM users_js WHERE email = $1
UserRows(tbl, email) == {i \in DOMAIN tbl : tbl[i].email = email}

\* SELECT * FROM otps WHERE email = $1 AND otp = $2
OtpRows(tbl, email, otp) ==
  {i \in DOMAIN tbl : tbl[i].email = email /\ tbl[i].otp = otp}

\* DELETE FROM otps WHERE email = $1
DeleteOtps(tbl, email) == SelectSeq(tbl, LAMBDA row : row.email # email)

\* The handler of request r moves to the next awaited call.
AuthGoto(r, to) == auth' = [auth EXCEPT ![r].pc = to]

\* The handler of request r answers and ends.
AuthRespond(r, response) ==
  auth' = [auth EXCEPT ![r].pc = "done", ![r].res = response]

\* The answer of the catch block of each handler.
AuthCatch(op) ==
  IF op = "send-otp" THEN A_OtpFailed
  ELSE IF op = "register" THEN A_RegisterFailed
  ELSE P_Failed

\* /send-otp arrives: the existence query is issued.
SendOtp(r, email) ==
  /\ auth[r].pc = "idle"
  /\ auth' = [auth EXCEPT ![r] = [NoAuth EXCEPT !.op = "send-otp",
                                               !.pc = "userQuery",
                                               !.email = email]]
  /\ UNCHANGED <<variant, users_js, bookings, pc, req, slot, err, res, after,
                 now, listed, otps>>

\* The existence query returns; the OTP is generated and its INSERT issued.
SendOtpUserQuery(r, otp) ==
  /\ auth[r].op = "send-otp" /\ auth[r].pc = "userQuery"
  /\ IF UserRows(users_js, auth[r].email) # {}
       THEN AuthRespond(r, A_UserExists)
       ELSE auth' = [auth EXCEPT ![r].pc = "otpInsert", ![r].otp = otp]
  /\ UNCHANGED <<variant, users_js, bookings, pc, req, slot, err, res, after,
                 now, listed, otps>>

\* The INSERT INTO otps is executed; the mail is sent.
SendOtpInsert(r) ==
  /\ auth[r].op = "send-otp" /\ auth[r].pc = "otpInsert"
  /\ otps' = Append(otps, [email |-> auth[r].email, otp |-> auth[r].otp])
  /\ AuthGoto(r, "sendMail")
  /\ UNCHANGED <<variant, users_js, bookings, pc, req, slot, err, res, after,
                 now, listed>>

\* sgMail.send returns; the handler answers 200.
SendOtpMail(r) ==
  /\ auth[r].op = "send-otp" /\ auth[r].pc = "sendMail"
  /\ AuthRespond(r, A_OtpSent)
  /\ UNCHANGED <<variant, users_js, bookings, pc, req, slot, err, res, after,
                 now, listed, otps>>

\* /register arrives: the OTP query is issued.
Register(r, email, otp) ==
  /\ auth[r].pc = "idle"
  /\ auth' = [auth EXCEPT ![r] = [NoAuth EXCEPT !.op = "register",
                                               !.pc = "otpQuery",
                                               !.email = email,
                                               !.otp = otp]]
  /\ UNCHANGED <<variant, users_js, bookings, pc, req, slot, err, res, after,
                 now, listed, otps>>

\* The OTP query returns; user_type is checked and the password hashed.
RegisterOtpQuery(r, user_type) ==
  /\ auth[r].op = "register" /\ auth[r].pc = "otpQuery"
  /\ IF OtpRows(otps, auth[r].email, auth[r].otp) = {}
       THEN AuthRespond(r, A_InvalidOtp)
     ELSE IF user_type # "speaker" /\ user_type # "user"
       THEN auth' = [auth EXCEPT ![r].pc = "done",
                                 ![r].user_type = user_type,
                                 ![r].res = A_InvalidUserType]
     ELSE auth' = [auth EXCEPT ![r].pc = "hash", ![r].user_type = user_type]
  /\ UNCHANGED <<variant, users_js, bookings, pc, req, slot, err, res, after,
                 now, listed, otps>>

\* bcrypt.hash returns; the INSERT INTO users_js is issued.
RegisterHash(r) ==
  /\ auth[r].op = "register" /\ auth[r].pc = "hash"
  /\ AuthGoto(r, "userInsert")
  /\ UNCHANGED <<variant, users_js, bookings, pc, req, slot, err, res, after,
                 now, listed, otps>>

\* The INSERT INTO users_js is executed; the token is signed and the DELETE
\* of the OTP rows issued.
RegisterInsert(r) ==
  /\ auth[r].op = "register" /\ auth[r].pc = "userInsert"
  /\ users_js' = Append(users_js, UserRow(auth[r].email, auth[r].user_type))
  /\ AuthGoto(r, "otpDelete")
  /\ UNCHANGED <<variant, bookings, pc, req, slot, err, res, after,
                 now, listed, otps>>

\* The DELETE FROM otps is executed; the handler answers 200.
RegisterDelete(r) ==
  /\ auth[r].op = "register" /\ auth[r].pc = "otpDelete"
  /\ otps' = DeleteOtps(otps, auth[r].email)
  /\ AuthRespond(r, A_Registered)
  /\ UNCHANGED <<variant, users_js, bookings, pc, req, slot, err, res, after,
                 now, listed>>

\* The name of the error of a rejecting call, by the call awaited.
AuthErrorAt(at) ==
  IF at = "sendMail" THEN "NotifierError"
  ELSE IF at = "hash" THEN "HashError"
  ELSE "StoreError"

\* The awaited call of a handler of routes/auth.js rejects: its catch block
\* answers 500.
AuthFails(r) ==
  /\ auth[r].pc \in {"userQuery", "otpInsert", "sendMail", "otpQuery", "hash",
                     "userInsert", "otpDelete", "speakerQuery", "update"}
  /\ auth' = [auth EXCEPT ![r].pc = "done",
                          ![r].err = AuthErrorAt(auth[r].pc),
                          ![r].res = AuthCatch(auth[r].op)]
  /\ UNCHANGED <<variant, users_js, bookings, pc, req, slot, err, res, after,
                 now, listed, otps>>

AuthNext ==
  \E r \in AuthReq :
    \/ \E email \in AuthEmails : SendOtp(r, email)
    \/ \E otp \in OtpCodes : SendOtpUserQuery(r, otp)
    \/ SendOtpInsert(r)
    \/ SendOtpMail(r)
    \/ \E email \in AuthEmails, otp \in OtpCodes : Register(r, email, otp)
    \/ \E user_type \in UserTypes : RegisterOtpQuery(r, user_type)
    \/ RegisterHash(r)
    \/ RegisterInsert(r)
    \/ RegisterDelete(r)
    \/ AuthFails(r)

SpecAuth == Init /\ [][AuthNext]_vars

----------------------------------------------------------------------------
\* State machine of /auth/update-profile

\* expertise and price_per_session of the body: absent or given.
Expertises == {"", "JS"}
Prices == {0, 100}

\* The framework that calls the handler.  Express 4 drops the rejection of
\* an async handler (no response is sent); Express 5 passes it to the default
\* error handler, which answers 500.  The repository does not pin a version.
Frameworks == {"express4", "express5"}

\* jwt.verify(token, secret) in /update-profile, where no presence check
\* comes first: an absent token throws JsonWebTokenError ('jwt must be
\* provided').
ProfileVerifyError(token) ==
  IF token.kind = "none" THEN "JsonWebTokenError" ELSE VerifyError(token)

\* UPDATE users_js SET expertise = $1, price_per_session = $2
\*   WHERE email = $3 AND user_type = 'speaker'
UpdateUsers(tbl, email, expertise, price_per_session) ==
  [i \in DOMAIN tbl |->
     IF tbl[i].email = email /\ tbl[i].user_type = "speaker"
       THEN [tbl[i] EXCEPT !.expertise = expertise,
                           !.price_per_session = price_per_session]
       ELSE tbl[i]]

\* /update-profile arrives.  jwt.verify runs before the try block: what it
\* throws rejects the handler's promise, and the catch block never sees it.
\* Otherwise the body is checked and the speaker query issued.
UpdateProfile(r, token, expertise, price_per_session, framework) ==
  /\ auth[r].pc = "idle"
  /\ IF ProfileVerifyError(token) # ""
       THEN auth' = [auth EXCEPT ![r] =
                       [NoAuth EXCEPT
                          !.op = "update-profile",
                          !.token = token,
                          !.err = ProfileVerifyError(token),
                          !.pc = IF framework = "express4"
                                   THEN "rejected" ELSE "done",
                          !.res = IF framework = "express4"
                                    THEN NoResponse ELSE P_Unhandled]]
     ELSE IF token.email = "" \/ expertise = "" \/ price_per_session = 0
       THEN auth' = [auth EXCEPT ![r] =
                       [NoAuth EXCEPT !.op = "update-profile",
                                      !.token = token,
                                      !.email = token.email,
                                      !.expertise = expertise,
                                      !.price_per_session = price_per_session,
                                      !.pc = "done",
                                      !.res = P_InvalidRequest]]
     ELSE auth' = [auth EXCEPT ![r] =
                     [NoAuth EXCEPT !.op = "update-profile",
                                    !.token = token,
                                    !.email = token.email,
                                    !.expertise = expertise,
                                    !.price_per_session = price_per_session,
                                    !.pc = "speakerQuery"]]
  /\ UNCHANGED <<variant, users_js, bookings, pc, req, slot, err, res, after,
                 now, listed, otps>>

\* The speaker query returns; the UPDATE is issued if it found a row.
ProfileSpeakerQuery(r) ==
  /\ auth[r].op = "update-profile" /\ auth[r].pc = "speakerQuery"
  /\ IF SpeakerRows(users_js, auth[r].email) = {}
       THEN AuthRespond(r, P_InvalidSpeaker)
       ELSE AuthGoto(r, "update")
  /\ UNCHANGED <<variant, users_js, bookings, pc, req, slot, err, res, after,
                 now, listed, otps>>

\* The UPDATE is executed; the handler answers 200.
ProfileUpdate(r) ==
  /\ auth[r].op = "update-profile" /\ auth[r].pc = "update"
  /\ users_js' = UpdateUsers(users_js, auth[r].email, auth[r].expertise,
                             auth[r].price_per_session)
  /\ AuthRespond(r, P_Updated)
  /\ UNCHANGED <<variant, bookings, pc, req, slot, err, res, after,
                 now, listed, otps>>

ProfileNext ==
  \E r \in AuthReq :
    \/ \E token \in Tokens, expertise \in Expertises,
          price_per_session \in Prices, framework \in Frameworks :
         UpdateProfile(r, token, expertise, price_per_session, framework)
    \/ ProfileSpeakerQuery(r)
    \/ ProfileUpdate(r)
    \/ AuthFails(r)

SpecProfile == Init /\ [][ProfileNext]_vars

----------------------------------------------------------------------------
\* Vocabulary of the properties

Done(r) == pc[r] = "done"

\* The request carries a verified token of role user.
UserToken(r) == req[r].token.kind = "valid" /\ req[r].token.user_type = "user"

\* speaker_email names an account of type speaker.
SpeakerExists(r) ==
  \E i \in DOMAIN users_js : /\ users_js[i].email = req[r].speaker_email
                             /\ users_js[i].user_type = "speaker"

\* The handler has read session_date.
DateRead(r) == req[r].session_date # NoDate

\* Schedule template: hours 09..16, minute 00.
InTemplate(sd) == ToNumber(sd.hh) \in 9..16 /\ ToNumber(sd.mm) = 0

\* A request that passes the actor, target and timestamp validations.
ValidBooking(r) ==
  UserToken(r) /\ SpeakerExists(r) /\ DateRead(r)
    /\ InTemplate(req[r].session_date)

\* Two requests for the same speaker, calendar date and hour.
SameTarget(r1, r2) ==
  /\ req[r1].speaker_email = req[r2].speaker_email
  /\ req[r1].session_date.date = req[r2].session_date.date
  /\ req[r1].session_date.hh = req[r2].session_date.hh

\* The handler is past the timestamp validation.
PastValidation(r) ==
  pc[r] \in {"bookingQuery", "insert", "sendMail", "calendarInsert"}

----------------------------------------------------------------------------
\* Properties

\* C1: the bookings table never holds two rows with the same speaker_email,
\* the same calendar date of session_date and the same slot.
C1_NoDoubleBooking ==
  \A i, j \in DOMAIN bookings :
    i # j => ~ /\ bookings[i].speaker_email = bookings[j].speaker_email
               /\ bookings[i].session_date.date = bookings[j].session_date.date
               /\ bookings[i].slot = bookings[j].slot

\* C2: two requests of different users for the same free (speaker, date,
\* slot), neither of which met a failing store or notifier, end with exactly
\* one success and one SlotTaken.
C2_ExactlyOneWinner ==
  \A r1, r2 \in Req :
    ( /\ r1 # r2
      /\ variant = "part_000"
      /\ Done(r1) /\ Done(r2)
      /\ err[r1] = "" /\ err[r2] = ""
      /\ ValidBooking(r1) /\ ValidBooking(r2)
      /\ req[r1].token.email # req[r2].token.email
      /\ SameTarget(r1, r2) )
    => {res[r1], res[r2]} = {R_Success, R_SlotTaken}

\* C3: a request whose e-mail send or calendar insert failed (both come after
\* the INSERT) is still answered with the success response.
C3_NotifierFailureKeepsSuccess ==
  \A r \in Req : err[r] = "NotifierError" => res[r] = R_Success

\* C4: of two requests with identical valid arguments, the second arriving
\* after the answer to the first, the first is answered success and the
\* second SlotTaken, whether or not the notifier failed in either.
C4_SuccessThenSlotTaken ==
  \A r1, r2 \in Req :
    ( /\ r1 \in after[r2]
      /\ Done(r2)
      /\ req[r1] = req[r2]
      /\ ValidBooking(r1)
      /\ err[r1] # "StoreError" /\ err[r2] # "StoreError" )
    => res[r1] = R_Success /\ res[r2] = R_SlotTaken

\* C5: every row of bookings has slot = hour - 9, in 0..7, where hour is the
\* hour of its session_date, whichever version of the handler wrote it.
C5_SlotIsHourMinusNine ==
  \A i \in DOMAIN bookings :
    /\ bookings[i].slot = ToNumber(bookings[i].session_date.hh) - 9
    /\ bookings[i].slot \in 0..7

\* C6: with no failing store or notifier, requests for 09:00 and for 16:00 on
\* the same day for the same speaker are both accepted and stored as slots 0
\* and 7.
C6_NineAndSixteenDistinct ==
  \A r1, r2 \in Req :
    ( /\ Done(r1) /\ Done(r2)
      /\ err[r1] = "" /\ err[r2] = ""
      /\ ValidBooking(r1) /\ ValidBooking(r2)
      /\ req[r1].speaker_email = req[r2].speaker_email
      /\ req[r1].session_date.date = req[r2].session_date.date
      /\ req[r1].session_date.hh = <<0, 9>>
      /\ req[r2].session_date.hh = <<1, 6>> )
    => /\ res[r1] = R_Success /\ res[r2] = R_Success
       /\ \E i, j \in DOMAIN bookings :
            /\ bookings[i].session_date = req[r1].session_date
            /\ bookings[i].speaker_email = req[r1].speaker_email
            /\ bookings[i].slot = 0
            /\ bookings[j].session_date = req[r2].session_date
            /\ bookings[j].speaker_email = req[r2].speaker_email
            /\ bookings[j].slot = 7

\* C7: a request of a valid user for an existing speaker, once the speaker
\* query has returned, is answered InvalidSlot exactly when the hour of its
\* timestamp is outside 9..16 or its minute is not 0; a timestamp inside the
\* template goes on to the conflict check.
C7_InvalidSlotIffOutsideTemplate ==
  \A r \in Req :
    /\ ( Done(r) /\ err[r] = "" /\ UserToken(r) /\ SpeakerExists(r) )
         => /\ DateRead(r)
            /\ res[r] = R_InvalidSlot <=> ~InTemplate(req[r].session_date)
            /\ InTemplate(req[r].session_date)
                 => res[r] \in {R_Success, R_SlotTaken}
    /\ PastValidation(r) => InTemplate(req[r].session_date)

\* C7 witness: 17:00 was rejected as InvalidSlot and 16:00 was booked.
C7_Witness ==
  \E r1, r2 \in Req :
    /\ UserToken(r1) /\ SpeakerExists(r1)
    /\ req[r1].session_date.hh = <<1, 7>> /\ req[r1].session_date.mm = <<0, 0>>
    /\ res[r1] = R_InvalidSlot
    /\ UserToken(r2) /\ SpeakerExists(r2)
    /\ req[r2].session_date.hh = <<1, 6>> /\ req[r2].session_date.mm = <<0, 0>>
    /\ res[r2] = R_Success

\* C8: a request of a valid user whose speaker_email matches no account of
\* type speaker never gets past the speaker query, is answered InvalidTarget
\* when that query returns, and no row of bookings names that speaker_email.
C8_UnknownSpeakerIsInvalidTarget ==
  \A r \in Req :
    ( pc[r] # "idle" /\ UserToken(r) /\ ~SpeakerExists(r) )
    => /\ pc[r] \in {"speakerQuery", "done"}
       /\ Done(r) => res[r] = (IF err[r] = "" THEN R_InvalidTarget ELSE R_Failed)
       /\ Done(r) => err[r] \in {"", "StoreError"}
       /\ \A i \in DOMAIN bookings :
            bookings[i].speaker_email # req[r].speaker_email

\* C8 witness: InvalidTarget was answered for an account of type user and for
\* an email with no account, while a row was booked for neither.
C8_Witness ==
  \E r1, r2 \in Req :
    /\ UserToken(r1) /\ req[r1].speaker_email = "u1"
    /\ res[r1] = R_InvalidTarget
    /\ UserToken(r2) /\ req[r2].speaker_email = "nobody"
    /\ res[r2] = R_InvalidTarget

\* C9: a request with a verified token whose role is not user is answered
\* Forbidden on arrival, whatever its speaker_email, and no row of bookings
\* has the token's email as user_email.
C9_NonUserRoleIsForbidden ==
  \A r \in Req :
    ( req[r].token.kind = "valid" /\ req[r].token.user_type # "user" )
    => /\ Done(r)
       /\ res[r] = R_Forbidden
       /\ \A i \in DOMAIN bookings :
            bookings[i].user_email # req[r].token.email

\* C9 witness: a speaker's token was answered Forbidden, for an existing
\* speaker as target, while another request has booked.
C9_Witness ==
  \E r1, r2 \in Req :
    /\ req[r1].token.kind = "valid" /\ req[r1].token.user_type = "speaker"
    /\ SpeakerExists(r1)
    /\ res[r1] = R_Forbidden
    /\ res[r2] = R_Success

\* C10: a request whose token is missing, does not verify or is expired is
\* answered 401 in each of the three cases, and inserts no row (the rows are
\* at most as many as the requests with a verified token).
C10_BadCredentialIs401 ==
  /\ \A r \in Req :
       ( Done(r) /\ req[r].token.kind \in {"none", "bad", "expired"} )
       => res[r].status = 401
  /\ Len(bookings) <= Cardinality({r \in Req : req[r].token.kind = "valid"})

\* The kind of failure a request ran into, from its cause: the credential,
\* the role, the target, the timestamp, the conflict, or the store.
FailureKind(r) ==
  CASE req[r].token.kind \in {"none", "bad", "expired"} -> "Unauthorized"
    [] req[r].token.user_type # "user" -> "Forbidden"
    [] err[r] = "StoreError" -> "StoreUnavailable"
    [] ~SpeakerExists(r) -> "InvalidTarget"
    [] ~InTemplate(req[r].session_date) -> "InvalidSlot"
    [] err[r] = "" /\ res[r].status # 200 -> "SlotTaken"
    [] OTHER -> "None"

BusinessKinds ==
  {"Unauthorized", "Forbidden", "InvalidTarget", "InvalidSlot", "SlotTaken"}

\* C11: two answered requests that failed for different kinds of reason carry
\* different response codes, and no business-rule rejection carries the code
\* of a store failure (500).  Stated for credentials other than the expired
\* one, whose answer is the subject of C10.
C11_KindsHaveDistinctCodes ==
  \A r1, r2 \in Req :
    ( Done(r1) /\ Done(r2)
      /\ req[r1].token.kind # "expired" /\ req[r2].token.kind # "expired"
      /\ FailureKind(r1) # "None" /\ FailureKind(r2) # "None" )
    => /\ FailureKind(r1) # FailureKind(r2)
            => res[r1].status # res[r2].status
       /\ FailureKind(r1) \in BusinessKinds => res[r1].status # 500

\* The row a request inserts.
RowOf(r) == [user_email |-> req[r].token.email,
             speaker_email |-> req[r].speaker_email,
             session_date |-> req[r].session_date,
             slot |-> SlotOf(variant, ToNumber(req[r].session_date.hh))]

\* C16: the row of a request whose e-mail send or calendar insert failed is
\* in bookings, unaltered, from then on, and a later request for the same
\* speaker, date and hour whose queries return is answered SlotTaken.
C16_NotifierFailureKeepsRow ==
  \A r1 \in Req :
    err[r1] = "NotifierError"
    => /\ \E i \in DOMAIN bookings : bookings[i] = RowOf(r1)
       /\ \A r2 \in Req :
            ( /\ r1 \in after[r2]
              /\ Done(r2) /\ err[r2] = ""
              /\ ValidBooking(r2)
              /\ SameTarget(r1, r2) )
            => res[r2] = R_SlotTaken

\* C16 witness: the notifier failed for the first request and a later request
\* of another user for the same speaker, date and hour was answered SlotTaken.
C16_Witness ==
  \E r1, r2 \in Req :
    /\ err[r1] = "NotifierError"
    /\ r1 \in after[r2]
    /\ SameTarget(r1, r2)
    /\ req[r1].token.email # req[r2].token.email
    /\ res[r2] = R_SlotTaken
    /\ Len(bookings) = 1

\* A row of the table for the same speaker, calendar date and hour as the
\* request.
Conflicts(tbl, r) ==
  {i \in DOMAIN tbl :
     /\ tbl[i].speaker_email = req[r].speaker_email
     /\ tbl[i].session_date.date = req[r].session_date.date
     /\ ToNumber(tbl[i].session_date.hh) = ToNumber(req[r].session_date.hh)}

\* C18: when the conflict query of a validated request returns, the request
\* is answered SlotTaken exactly if the table holds a row of the same
\* speaker, the same calendar date and the same hour; otherwise it goes on
\* to the INSERT.
C18_SlotTakenIffConflict ==
  [][ \A r \in Req :
        ( pc[r] = "bookingQuery" /\ pc'[r] # "bookingQuery" /\ err'[r] = "" )
        => /\ res'[r] = R_SlotTaken <=> Conflicts(bookings, r) # {}
           /\ Conflicts(bookings, r) = {} => pc'[r] = "insert" ]_vars

\* C18 witness: a request was booked although the table held the row of an
\* earlier request for the same speaker and hour on another date.
C18_Witness ==
  \E r1, r2 \in Req :
    /\ r1 \in after[r2]
    /\ res[r1] = R_Success /\ res[r2] = R_Success
    /\ req[r1].speaker_email = req[r2].speaker_email
    /\ req[r1].session_date.hh = req[r2].session_date.hh
    /\ req[r1].session_date.date # req[r2].session_date.date

\* C20: the checks are applied in the order credential, role, target,
\* timestamp, conflict and the first failing one is reported: Unauthorized
\* before Forbidden before InvalidTarget before InvalidSlot before SlotTaken;
\* the conflict query is issued only after all validations passed.
C20_FirstFailingCheckReported ==
  \A r \in Req :
    /\ ( Done(r) /\ err[r] \notin {"StoreError", "NotifierError"} )
         => IF req[r].token.kind \in {"none", "bad", "expired"}
              THEN res[r].status = 401
            ELSE IF req[r].token.user_type # "user"
              THEN res[r] = R_Forbidden
            ELSE IF ~SpeakerExists(r)
              THEN res[r] = R_InvalidTarget
            ELSE IF ~InTemplate(req[r].session_date)
              THEN res[r] = R_InvalidSlot
            ELSE res[r] \in {R_SlotTaken, R_Success}
    /\ PastValidation(r) => ValidBooking(r)

----------------------------------------------------------------------------
\* Properties of the availability listings (specification SpecAvail)

\* A row of the table for the speaker, the calendar date and the hour of
\* slot t.
BookedAt(tbl, email, t) ==
  \E i \in DOMAIN tbl :
    /\ tbl[i].speaker_email = email
    /\ tbl[i].session_date.date = t.date
    /\ ToNumber(tbl[i].session_date.hh) = ToNumber(t.hh)

\* The slots a listing returned for a speaker.
SlotsFor(l, email) == {p[2] : p \in {q \in l.slots : q[1] = email}}

\* C12: no slot a listing returns for a speaker coincides with a row the
\* table held at the call for that speaker, the date and the hour of the
\* slot, on any day of the range.
C12_ListedSlotsAreUnbooked ==
  listed.status = 200
  => \A p \in listed.slots : ~BookedAt(listed.at, p[1], p[2])

\* C13: every slot of the next-7-days listing lies between now and now + 7
\* days, has an hour in 9..16 and minute 0.
C13_WeekListingInRange ==
  ( listed.call = "available" /\ listed.status = 200 )
  => \A p \in listed.slots :
       /\ now <= ParseDate(p[2])
       /\ ParseDate(p[2]) <= now + 7 * 24 * 60
       /\ ToNumber(p[2].hh) \in 9..16
       /\ ToNumber(p[2].mm) = 0

\* C13 witness: a listing made at 09:30 returned 16:00 of the same day and
\* 16:00 of the sixth day after it, and not 09:00 of the same day.
C13_Witness ==
  /\ listed.call = "available" /\ listed.status = 200
  /\ HoursOfDate(now) = 9 /\ MinutesOfDate(now) = 30
  /\ <<"s1", FormatDate(MakeDate(DayOf(now), 16, 0))>> \in listed.slots
  /\ <<"s1", FormatDate(MakeDate(DayOf(now) + 6, 16, 0))>> \in listed.slots
  /\ <<"s1", FormatDate(MakeDate(DayOf(now), 9, 0))>> \notin listed.slots

\* C14: the next-7-days listing returns, for every speaker without a row of
\* its own in the table, every slot of hours 9..16 of the seven days from
\* today that is not in the past.
C14_UnbookedSpeakerFullyListed ==
  ( listed.call = "available" /\ listed.status = 200 )
  => \A e \in {"s1", "s2"} :
       (\A i \in DOMAIN listed.at : listed.at[i].speaker_email # e)
       => \A day \in 0..6, hour \in 9..16 :
            MakeDate(DayOf(now) + day, hour, 0) >= now
            => FormatDate(MakeDate(DayOf(now) + day, hour, 0))
                 \in SlotsFor(listed, e)

\* C15: the per-speaker listing for an email that is no speaker's, when its
\* queries return, answers neither a slot list nor the generic failure, but
\* an outcome of its own.
C15_UnknownSpeakerNotFound ==
  ( /\ listed.call = "availability"
    /\ listed.email \notin {"s1", "s2"}
    /\ listed.error # "StoreError" )
  => /\ listed.status # 200
     /\ listed.body # "Failed to retrieve availability"

\* C17: a listing made after a successful booking of a slot that the same
\* listing returned before the booking returns, for the speaker booked, the
\* slots it returned before without the booked one.
C17_OnlyBookedSlotLeaves ==
  [][ ( /\ listed.status = 200 /\ listed'.status = 200
        /\ listed'.call = listed.call
        /\ listed'.email = listed.email
        /\ listed'.month = listed.month
        /\ listed.at = <<>>
        /\ listed'.at = <<RowOf(1)>>
        /\ res[1] = R_Success
        /\ req[1].session_date \in SlotsFor(listed, req[1].speaker_email) )
      => SlotsFor(listed', req[1].speaker_email)
           = SlotsFor(listed, req[1].speaker_email) \ {req[1].session_date}
    ]_vars

\* The days of a month.
DaysOfMonth(month) == ((month - 1) * MonthLen + 1)..(month * MonthLen)

\* C19: the per-month listing returns every slot of hours 9..16 on the days
\* from max(first day of the month, today) to the last day of the month that
\* is not in the past and not booked for the speaker, for past, current and
\* future months.
C19_MonthListingComplete ==
  ( listed.call = "availability" /\ listed.status = 200 )
  => \A d \in DaysOfMonth(listed.month), hour \in 9..16 :
       ( /\ d >= DayOf(now)
         /\ MakeDate(d, hour, 0) >= now
         /\ ~BookedAt(listed.at, listed.email,
                      FormatDate(MakeDate(d, hour, 0))) )
       => FormatDate(MakeDate(d, hour, 0)) \in SlotsFor(listed, listed.email)

----------------------------------------------------------------------------
\* Termination of the handler and the frame of its failures

\* The steps of a request after its arrival: each is the return, or the
\* rejection, of the call the handler is suspended at.
Step(r) ==
  \/ \E session_date \in SessionDates : SpeakerQuery(r, session_date)
  \/ BookingQuery(r)
  \/ InsertBooking(r)
  \/ SendMail(r)
  \/ CalendarInsert(r)
  \/ StoreFails(r)
  \/ NotifierFails(r)

\* Every store and notifier call eventually returns or throws, and the event
\* loop then runs the continuation of the handler that awaits it.
SpecLive == Spec /\ \A r \in Req : WF_vars(Step(r))

\* C21: a book-session request that has arrived eventually has a response;
\* a handler has ended if and only if it has sent a response, and a response
\* that was sent is never followed by another one for the same request.
C21_ExactlyOneResponse ==
  /\ \A r \in Req : (pc[r] # "idle") ~> (Done(r) /\ res[r] # NoResponse)
  /\ [](\A r \in Req : Done(r) <=> res[r] # NoResponse)
  /\ [][\A r \in Req : res[r] # NoResponse
                         => (res'[r] = res[r] /\ pc'[r] = "done")]_vars

\* One run ends a request by a notifier failure and the other by success.
C21_Witness ==
  \E r1, r2 \in Req : /\ Done(r1) /\ err[r1] = "NotifierError"
                      /\ res[r1] = R_Failed
                      /\ Done(r2) /\ res[r2] = R_Success

\* C22: a request that ended in a failure response wrote no row: the table
\* holds no row with its user, speaker, timestamp and slot (stated for a
\* request whose cookie and body no other request repeats, so that a row
\* with these values can only be its own).
C22_FailureWritesNoRow ==
  \A r \in Req :
    ( /\ Done(r)
      /\ res[r].status # 200
      /\ \A q \in Req \ {r} : req[q] # req[r] )
    => ~ \E i \in DOMAIN bookings : bookings[i] = RowOf(r)

\* C24: whatever the interleaving of /send-otp and /register requests,
\* users_js holds at most one row for an email.
C24_OneAccountPerEmail ==
  \A i, j \in DOMAIN users_js :
    users_js[i].email = users_js[j].email => i = j

\* The handler of a request of routes/auth.js has ended: it answered, or
\* its promise was rejected.
AuthEnded(r) == auth[r].pc \in {"done", "rejected"}

\* C25: an /update-profile request whose handler has ended has received a
\* response, whether its token cookie is valid, missing, invalid or expired.
C25_ProfileAlwaysAnswered ==
  \A r \in AuthReq :
    (auth[r].op = "update-profile" /\ AuthEnded(r))
      => auth[r].res # NoResponse

\* C23: a timestamp that the last listing returned as open for speaker S
\* passes the timestamp validation of a booking request for S; if the table
\* is still the one the listing read, it passes the conflict check; and the
\* INSERT that follows writes its row (each step stated for a call of the
\* store that returns).
C23_ListedSlotIsBookable ==
  [][ \A r \in Req :
        ( /\ listed.status = 200
          /\ pc'[r] # pc[r]
          /\ err'[r] = ""
          /\ req'[r].session_date
               \in SlotsFor(listed, req'[r].speaker_email) )
        => /\ pc[r] = "speakerQuery" => pc'[r] = "bookingQuery"
           /\ (pc[r] = "bookingQuery" /\ listed.at = bookings)
                => pc'[r] = "insert"
           /\ pc[r] = "insert"
                => \E i \in DOMAIN bookings' : bookings'[i] = RowOf(r)
    ]_vars

=============================================================================
